---- MODULE Spec2Model ----
(***************************************************************************)
(* Contoso Restaurants orchestrator (src/agents/orchestrator/main.py).     *)
(*                                                                         *)
(* Two specifications over one set of variables:                           *)
(*   Spec        the LangGraph router: llm_call -> tools -> llm_call ...   *)
(*   ClientSpec  the sub-agent client _call_sub_agent, applied to bounded  *)
(*               sets of inputs and HTTP outcomes                          *)
(*                                                                         *)
(* Text is a sequence of tokens (a literal, an interpolated value): the    *)
(* f-strings of the source become token sequences, "\n".join becomes a     *)
(* join with the token "\n", s[:n] becomes a prefix.                       *)
(* A decoded JSON value is a record [t, v]: t the Python type, v the       *)
(* value (text for str and num, a sequence for list, a record for dict).   *)
(***************************************************************************)
EXTENDS Integers, Sequences, FiniteSets, TLC

\* ------------------------------------------------------------------------
\* Bounds of the model
\* ------------------------------------------------------------------------
\* longest output array of a payload
MaxItems == 2
\* longest content array of a message item
MaxBlocks == 2
\* most tool calls one assistant message carries
MaxToolCalls == 2
\* supersteps the compiled graph runs before the runtime stops the turn
RecursionLimit == 4

\* ------------------------------------------------------------------------
\* Configuration (main.py, CONFIGURATION)
\* ------------------------------------------------------------------------
OPS_AGENT_NAME == "ContosoOpsAgent"
OPS_AGENT_VERSION == "1"
MENU_AGENT_NAME == "ContosoMenuAgent"
MENU_AGENT_VERSION == "1"
\* the values FOUNDRY_PROJECT_ENDPOINT takes: unset (default "") or set
Endpoints == {"", "https://contoso.services.ai.azure.com/api/projects/p"}
\* str(data)[:300] of the fallback text
RawLimit == 300

\* ------------------------------------------------------------------------
\* JSON values as Python sees them after response.json()
\* ------------------------------------------------------------------------
Null == [t |-> "null", v |-> <<>>]
Str(s) == [t |-> "str", v |-> s]
Num(s) == [t |-> "num", v |-> s]
List(xs) == [t |-> "list", v |-> xs]
Dict(r) == [t |-> "dict", v |-> r]

\* Python truthiness of a decoded value
Truthy(j) ==
  CASE j.t = "null" -> FALSE
    [] j.t = "str" -> j.v # <<>>
    [] j.t = "num" -> j.v # <<"0">>
    [] j.t = "list" -> Len(j.v) > 0
    [] j.t = "dict" -> DOMAIN j.v # {}

\* Python `key in data`: "T", "F", or "TypeError" for a value that is no container
In(key, data) ==
  CASE data.t = "dict" -> IF key \in DOMAIN data.v THEN "T" ELSE "F"
    [] data.t = "list" ->
         IF \E i \in DOMAIN data.v : data.v[i].t = "str" /\ data.v[i].v = <<key>>
         THEN "T" ELSE "F"
    [] data.t = "str" -> IF \E i \in DOMAIN data.v : data.v[i] = key THEN "T" ELSE "F"
    [] OTHER -> "TypeError"

\* Python x[:n] is defined for str and list only
Sliceable(j) == j.t \in {"str", "list"}

\* s[:n] on text
Take(s, n) == SubSeq(s, 1, IF Len(s) < n THEN Len(s) ELSE n)

RECURSIVE JoinNL(_)
\* "\n".join(texts) for a list of texts
JoinNL(texts) ==
  IF Len(texts) = 0 THEN <<>>
  ELSE IF Len(texts) = 1 THEN texts[1]
  ELSE texts[1] \o <<"\n">> \o JoinNL(Tail(texts))

\* the keys of a dict in a fixed (insertion) order
KeyOrder == <<"output_text", "output", "choices", "type", "content", "text", "message", "error">>

RECURSIVE Repr(_)
RECURSIVE ReprSeq(_, _)
RECURSIVE ReprDict(_, _, _)
\* str(data): the Python repr of a decoded value, as text
Repr(j) ==
  CASE j.t = "null" -> <<"None">>
    [] j.t = "str" -> <<"'">> \o j.v \o <<"'">>
    [] j.t = "num" -> j.v
    [] j.t = "list" -> <<"[">> \o ReprSeq(j.v, 1) \o <<"]">>
    [] j.t = "dict" -> <<"{">> \o ReprDict(j.v, 1, TRUE) \o <<"}">>
ReprSeq(xs, i) ==
  IF i > Len(xs) THEN <<>>
  ELSE (IF i > 1 THEN <<", ">> ELSE <<>>) \o Repr(xs[i]) \o ReprSeq(xs, i + 1)
ReprDict(r, i, first) ==
  IF i > Len(KeyOrder) THEN <<>>
  ELSE IF KeyOrder[i] \in DOMAIN r
       THEN (IF first THEN <<>> ELSE <<", ">>)
            \o <<"'", KeyOrder[i], "': ">> \o Repr(r[KeyOrder[i]])
            \o ReprDict(r, i + 1, FALSE)
       ELSE ReprDict(r, i + 1, first)

\* str(x), of str(observation) in tool_node and str(data) in the fallback:
\* text stays as it is, anything else is its repr
PyStr(j) == IF j.t = "str" THEN j.v ELSE Repr(j)

\* ------------------------------------------------------------------------
\* Outcome of a Python call: a returned value or a raised exception
\* ------------------------------------------------------------------------
Ret(j) == [k |-> "return", v |-> j, exc |-> "none"]
Exc(name) == [k |-> "raise", v |-> Null, exc |-> name]
\* the loop over data["output"] ended without a return
NoMatch == [k |-> "nomatch", v |-> Null, exc |-> "none"]

\* ------------------------------------------------------------------------
\* _call_sub_agent: response parsing (main.py 121-152)
\* ------------------------------------------------------------------------
\* Format 1: `if "output_text" in data and data["output_text"]`
Format1(data) ==
  LET has == In("output_text", data) IN
  IF has = "TypeError" THEN Exc("TypeError")
  ELSE IF has = "F" THEN NoMatch
  ELSE IF data.t # "dict" THEN Exc("TypeError")
  ELSE LET result == data.v["output_text"] IN
       IF ~Truthy(result) THEN NoMatch
       ELSE IF ~Sliceable(result) THEN Exc("TypeError")
       ELSE Ret(result)

\* what `for content_block in item["content"]` can iterate over
Iterable(j) == j.t \in {"list", "str", "dict"}

RECURSIVE DictKeys(_, _)
\* the keys of a dict, as iterating over it yields them
DictKeys(r, i) ==
  IF i > Len(KeyOrder) THEN <<>>
  ELSE (IF KeyOrder[i] \in DOMAIN r THEN <<Str(<<KeyOrder[i]>>)>> ELSE <<>>)
       \o DictKeys(r, i + 1)

\* the values the for loop binds content_block to
Iter(j) ==
  CASE j.t = "list" -> j.v
    [] j.t = "str" -> [i \in DOMAIN j.v |-> Str(<<j.v[i]>>)]
    [] j.t = "dict" -> DictKeys(j.v, 1)

RECURSIVE BlockTexts(_)
\* the list `texts` after the loop over the content blocks of one item
BlockTexts(blocks) ==
  IF Len(blocks) = 0 THEN <<>>
  ELSE LET content_block == Head(blocks)
           rest == BlockTexts(Tail(blocks))
       IN IF content_block.t = "dict" /\ "text" \in DOMAIN content_block.v
          THEN <<content_block.v["text"]>> \o rest
          ELSE IF content_block.t = "str" THEN <<content_block>> \o rest
          ELSE rest

\* "\n".join(texts): a TypeError unless every element is a str
JoinTexts(texts) ==
  IF \A i \in DOMAIN texts : texts[i].t = "str"
  THEN Ret(Str(JoinNL([i \in DOMAIN texts |-> texts[i].v])))
  ELSE Exc("TypeError")

RECURSIVE OutputItems(_, _)
\* `for item in data["output"]`: returns at the first message item with texts
OutputItems(items, i) ==
  IF i > Len(items) THEN NoMatch
  ELSE LET item == items[i] IN
       IF item.t # "dict" THEN Exc("AttributeError")
       ELSE IF /\ "type" \in DOMAIN item.v
               /\ item.v["type"].t = "str"
               /\ item.v["type"].v = <<"message">>
               /\ "content" \in DOMAIN item.v
            THEN LET content == item.v["content"] IN
                 IF ~Iterable(content) THEN Exc("TypeError")
                 ELSE LET texts == BlockTexts(Iter(content)) IN
                      IF Len(texts) > 0 THEN JoinTexts(texts)
                      ELSE OutputItems(items, i + 1)
            ELSE OutputItems(items, i + 1)

\* Format 2: `if "output" in data and isinstance(data["output"], list)`
Format2(data) ==
  LET has == In("output", data) IN
  IF has = "TypeError" THEN Exc("TypeError")
  ELSE IF has = "F" THEN NoMatch
  ELSE IF data.t # "dict" THEN Exc("TypeError")
  ELSE IF data.v["output"].t # "list" THEN NoMatch
  ELSE OutputItems(data.v["output"].v, 1)

\* Format 3: `if "choices" in data and data["choices"]`
Format3(data) ==
  LET has == In("choices", data) IN
  IF has = "TypeError" THEN Exc("TypeError")
  ELSE IF has = "F" THEN NoMatch
  ELSE IF data.t # "dict" THEN Exc("TypeError")
  ELSE LET choices == data.v["choices"] IN
       IF ~Truthy(choices) THEN NoMatch
       ELSE IF choices.t = "dict" THEN Exc("KeyError")
       ELSE IF choices.t = "num" THEN Exc("TypeError")
       ELSE LET first == IF choices.t = "list" THEN choices.v[1]
                         ELSE Str(<<choices.v[1]>>)
            IN IF first.t # "dict" THEN Exc("AttributeError")
               ELSE LET message == IF "message" \in DOMAIN first.v
                                   THEN first.v["message"] ELSE Dict(<<>>)
                    IN IF message.t # "dict" THEN Exc("AttributeError")
                       ELSE LET content == IF "content" \in DOMAIN message.v
                                           THEN message.v["content"] ELSE Str(<<>>)
                            IN IF ~Truthy(content) THEN NoMatch
                               ELSE IF ~Sliceable(content) THEN Exc("TypeError")
                               ELSE Ret(content)

\* the fallback text of line 152
FallbackText(agent_name, data) ==
  <<"Received a response from ", agent_name, " but could not parse it. Raw: ">>
    \o Take(PyStr(data), RawLimit)

\* lines 121-152: the three formats in order, then the fallback; `path` names
\* the branch that produced the outcome
ParseResponse(data, agent_name) ==
  LET f1 == Format1(data)
      f2 == Format2(data)
      f3 == Format3(data)
  IN IF f1.k # "nomatch" THEN [out |-> f1, path |-> "output_text"]
     ELSE IF f2.k # "nomatch" THEN [out |-> f2, path |-> "output"]
     ELSE IF f3.k # "nomatch" THEN [out |-> f3, path |-> "choices"]
     ELSE [out |-> Ret(Str(FallbackText(agent_name, data))), path |-> "fallback"]

\* ------------------------------------------------------------------------
\* _call_sub_agent: request, HTTP call and error mapping (main.py 82-162)
\* ------------------------------------------------------------------------
\* NoEndpointText that does not name the agent
NoEndpointText_anon(agent_name) ==
  <<"Error: FOUNDRY_PROJECT_ENDPOINT is not configured.">>

\* line 88
NoEndpointText(agent_name) ==
  <<"Error: FOUNDRY_PROJECT_ENDPOINT is not configured. Cannot reach ", agent_name, ".">>

\* line 156
HttpStatusText(agent_name, status_code) ==
  <<"Sorry, I couldn't reach the ", agent_name, ". It returned HTTP ",
    ToString(status_code), ". Please try again.">>

\* RequestErrorText with the transport failure answered by the generic apology
RequestErrorText_generic(agent_name) ==
  <<"Sorry, an unexpected error occurred while contacting the ", agent_name,
    ". Please try again.">>

\* line 159
RequestErrorText(agent_name) ==
  <<"Sorry, I couldn't connect to the ", agent_name, ". Please try again later.">>

\* line 162
UnexpectedText(agent_name) ==
  <<"Sorry, an unexpected error occurred while contacting the ", agent_name,
    ". Please try again.">>

\* lines 102-110: the request body
Payload(question, agent_name, agent_version) ==
  [input |-> <<[role |-> "user", content |-> question]>>,
   agent |-> [type |-> "agent_reference", name |-> agent_name, version |-> agent_version],
   stream |-> FALSE]

NoRequest == [input |-> <<>>,
              agent |-> [type |-> "none", name |-> "none", version |-> "none"],
              stream |-> FALSE]

\* response.raise_for_status(): only a 2xx status passes
IsSuccess(status_code) == status_code >= 200 /\ status_code < 300

\* what one call meets outside the process: the credential chain, the network
\* and the remote service
\*   cred    "ok" | "raise"       DefaultAzureCredential().get_token
\*   http    "response" | "transport"   client.post
\*   status  the HTTP status of the response
\*   body    "json" | "invalid"   response.json()
\*   data    the decoded body
Env(cred, http, status, body, data) ==
  [cred |-> cred, http |-> http, status |-> status, body |-> body, data |-> data]

\* the outcome of _call_sub_agent with its side effects: the request posted,
\* the number of credential acquisitions and of HTTP POSTs, the branch taken
Result(out, path, request, creds, posts) ==
  [k |-> out.k, v |-> out.v, exc |-> out.exc, path |-> path,
   request |-> request, creds |-> creds, posts |-> posts]

\* lines 154-162: the except clauses, by exception class
\*   "HTTPStatusError" | "RequestError" | any other class
Handle(exception, agent_name, status_code) ==
  IF exception = "HTTPStatusError" THEN Ret(Str(HttpStatusText(agent_name, status_code)))
  ELSE IF exception = "RequestError" THEN Ret(Str(RequestErrorText(agent_name)))
  ELSE Ret(Str(UnexpectedText(agent_name)))

\* lines 82-162
CallSubAgent(question, agent_name, agent_version, endpoint, env) ==
  IF endpoint = ""
  THEN Result(Ret(Str(NoEndpointText(agent_name))), "no_endpoint", NoRequest, 0, 0)
  ELSE IF env.cred = "raise"
  THEN Result(Exc("ClientAuthenticationError"), "credential", NoRequest, 1, 0)
  ELSE LET request == Payload(question, agent_name, agent_version) IN
       IF env.http = "transport"
       THEN Result(Handle("RequestError", agent_name, 0), "RequestError", request, 1, 1)
       ELSE IF ~IsSuccess(env.status)
       THEN Result(Handle("HTTPStatusError", agent_name, env.status),
                   "HTTPStatusError", request, 1, 1)
       ELSE IF env.body = "invalid"
       THEN Result(Handle("JSONDecodeError", agent_name, env.status),
                   "Exception", request, 1, 1)
       ELSE LET parsed == ParseResponse(env.data, agent_name) IN
            IF parsed.out.k = "raise"
            THEN Result(Handle(parsed.out.exc, agent_name, env.status),
                        "Exception", request, 1, 1)
            ELSE Result(parsed.out, parsed.path, request, 1, 1)

\* ------------------------------------------------------------------------
\* State
\* ------------------------------------------------------------------------
VARIABLES
  FOUNDRY_PROJECT_ENDPOINT, \* module constant read from the environment at import
  messages,   \* MessagesState["messages"]: the Conversation
  pc,         \* the node the graph runs next: "llm_call", "tools", "END", "raised", "off"
  error,      \* the exception that ended the turn, "none" otherwise
  steps,      \* supersteps run in this turn
  calls,      \* log of the _call_sub_agent invocations of this turn
  cstate,     \* ClientSpec: "ready", "done"; "off" under Spec
  cin,        \* ClientSpec: the arguments and environment of the call
  cout        \* ClientSpec: the outcome of the call

vars == <<FOUNDRY_PROJECT_ENDPOINT, messages, pc, error, steps, calls, cstate, cin, cout>>
routerVars == <<messages, pc, error, steps, calls>>
clientVars == <<cstate, cin, cout>>

\* ------------------------------------------------------------------------
\* Inputs of ClientSpec: decoded bodies and call environments
\* ------------------------------------------------------------------------
Absent == [t |-> "absent", v |-> <<>>]

\* content blocks that carry text: an object with a text field, a raw string
Blocks ==
  { Dict([type |-> Str(<<"output_text">>), text |-> Str(<<"a">>)]),
    Str(<<"b">>) }

\* content arrays: text blocks in any mix, or a single object without text
Contents ==
  UNION { [1..n -> Blocks] : n \in 0..MaxBlocks }
    \cup { <<Dict([type |-> Str(<<"image">>)])>> }

\* items of the output array: message items, an item of another type, a
\* message item whose content is null, an item that is not an object
Items ==
  { Dict([type |-> Str(<<"message">>), content |-> List(c)]) : c \in Contents }
    \cup { Dict([type |-> Str(<<"reasoning">>)]),
           Dict([type |-> Str(<<"message">>), content |-> Null]),
           Str(<<"s">>) }

OutputValues ==
  {Absent, Str(<<"x">>)} \cup { List(xs) : xs \in UNION { [1..n -> Items] : n \in 0..MaxItems } }

OutputTextValues == {Absent, Str(<<>>), Str(<<"t">>), List(<<Str(<<"l">>)>>)}

ChoicesValues ==
  { Absent, List(<<>>),
    List(<<Dict([message |-> Dict([content |-> Str(<<"c">>)])])>>),
    List(<<Dict([message |-> Dict([content |-> Str(<<>>)])])>>) }

\* a JSON object with the keys that are present
MkDict(output_text, output, choices) ==
  LET all == [output_text |-> output_text, output |-> output, choices |-> choices]
      K == {key \in DOMAIN all : all[key].t # "absent"}
  IN Dict([key \in K |-> all[key]])

Bodies ==
  { MkDict(ot, o, c) : ot \in OutputTextValues, o \in OutputValues, c \in ChoicesValues }
    \cup { Null, Num(<<"7">>), List(<<Str(<<"x">>)>>), Str(<<"plain">>) }

StatusCodes == {302, 404, 500}

ClientEnvs ==
  { Env("raise", "response", 200, "json", Null),
    Env("ok", "transport", 0, "json", Null),
    Env("ok", "response", 200, "invalid", Null) }
    \cup { Env("ok", "response", s, "json", Null) : s \in StatusCodes }
    \cup { Env("ok", "response", 200, "json", d) : d \in Bodies }

\* environments without a decoded body, and with the plainest one
BasicEnvs ==
  { e \in ClientEnvs : e.data.t = "null" }
    \cup { Env("ok", "response", 200, "json", Dict([output_text |-> Str(<<"t">>)])) }

Agents == { <<OPS_AGENT_NAME, OPS_AGENT_VERSION>>, <<MENU_AGENT_NAME, MENU_AGENT_VERSION>> }

\* the user's question
Q == <<"How are Southwest stores performing?">>

NoInput == [question |-> <<>>, agent_name |-> "none", agent_version |-> "none",
            env |-> Env("ok", "transport", 0, "json", Null)]
NoOutput == Result(NoMatch, "none", NoRequest, 0, 0)

Input(question, agent, env) ==
  [question |-> question, agent_name |-> agent[1], agent_version |-> agent[2], env |-> env]

\* the calls ClientSpec makes: every environment for the ops agent, the basic
\* ones for the menu agent too
ClientInputs ==
  { Input(Q, <<OPS_AGENT_NAME, OPS_AGENT_VERSION>>, e) : e \in ClientEnvs }
    \cup { Input(Q, a, e) : a \in Agents, e \in BasicEnvs }

\* ------------------------------------------------------------------------
\* ClientSpec: one call of _call_sub_agent
\* ------------------------------------------------------------------------
ClientInit ==
  /\ FOUNDRY_PROJECT_ENDPOINT \in Endpoints
  /\ messages = <<>>
  /\ pc = "off"
  /\ error = "none"
  /\ steps = 0
  /\ calls = <<>>
  /\ cstate = "ready"
  /\ cin \in ClientInputs
  /\ cout = NoOutput

\* _call_sub_agent(question, agent_name, agent_version)
call_sub_agent ==
  /\ cstate = "ready"
  /\ cout' = CallSubAgent(cin.question, cin.agent_name, cin.agent_version,
                          FOUNDRY_PROJECT_ENDPOINT, cin.env)
  /\ cstate' = "done"
  /\ UNCHANGED <<FOUNDRY_PROJECT_ENDPOINT, cin>>
  /\ UNCHANGED routerVars

ClientNext == call_sub_agent

ClientSpec == ClientInit /\ [][ClientNext]_vars

\* ------------------------------------------------------------------------
\* The router graph (main.py 168-269)
\* ------------------------------------------------------------------------
HumanMessage(content) ==
  [role |-> "user", content |-> content, tool_calls |-> <<>>, tool_call_id |-> 0]
AIMessage(content, tool_calls) ==
  [role |-> "assistant", content |-> content, tool_calls |-> tool_calls, tool_call_id |-> 0]
\* ToolMessage that loses the id of the tool call it answers
ToolMessage_noid(content, tool_call_id) ==
  [role |-> "tool", content |-> content, tool_calls |-> <<>>, tool_call_id |-> 0]

ToolMessage(content, tool_call_id) ==
  [role |-> "tool", content |-> content, tool_calls |-> <<>>, tool_call_id |-> tool_call_id]

\* _tools_by_name = {t.name: t for t in _tools}: each tool with the sub-agent
\* reference its body passes to _call_sub_agent
tools_by_name ==
  [query_ops_agent |-> <<OPS_AGENT_NAME, OPS_AGENT_VERSION>>,
   query_menu_agent |-> <<MENU_AGENT_NAME, MENU_AGENT_VERSION>>]

\* query_ops_agent(question) / query_menu_agent(question)
InvokeTool(name, args, endpoint, env) ==
  CallSubAgent(args.question, tools_by_name[name][1], tools_by_name[name][2], endpoint, env)

\* what a call made from the router meets: the sub-agent answers R1, or the
\* credential chain fails (ClientSpec covers the other outcomes of the call)
R1 == <<"Southwest revenue is up 4% week over week.">>
RouterEnvs ==
  { Env("ok", "response", 200, "json", Dict([output_text |-> Str(R1)])),
    Env("raise", "response", 200, "json", Null) }
\* the first call of a pass may also meet a sub-agent that answers HTTP 500
FirstCallEnvs == { Env("ok", "response", 500, "json", Null) }

\* the content of the last message with the given role, <<>> if there is none
RECURSIVE LastContent(_, _)
LastContent(msgs, role) ==
  IF Len(msgs) = 0 THEN <<>>
  ELSE IF msgs[Len(msgs)].role = role THEN msgs[Len(msgs)].content
  ELSE LastContent(SubSeq(msgs, 1, Len(msgs) - 1), role)

HasRole(msgs, role) == \E i \in DOMAIN msgs : msgs[i].role = role

RECURSIVE ToolCallCount(_)
\* number of tool calls requested so far in the conversation
ToolCallCount(msgs) ==
  IF Len(msgs) = 0 THEN 0
  ELSE Len(Head(msgs).tool_calls) + ToolCallCount(Tail(msgs))

\* The model's answers. The model is asked (SYSTEM_PROMPT) to pass the exact
\* question and to return the tool's response as is, and nothing in the graph
\* makes it: it may paraphrase, name a tool that does not exist, request
\* several tool calls, or answer in its own words.
Paraphrase == <<"Southwest store performance">>
OwnWords == <<"I can help with operations and menu questions.">>
ToolCallChoices(question) ==
  { <<"query_ops_agent", question>>, <<"query_menu_agent", Paraphrase>>,
    <<"lookup_weather", question>> }

LlmAnswers(msgs) ==
  LET question == LastContent(msgs, "user")
      base == ToolCallCount(msgs)
      direct == { AIMessage(c, <<>>) :
                  c \in {OwnWords} \cup (IF HasRole(msgs, "tool")
                                         THEN {LastContent(msgs, "tool")} ELSE {}) }
      delegating ==
        { AIMessage(<<>>, [j \in DOMAIN tc |->
                            [id |-> base + j, name |-> tc[j][1],
                             args |-> [question |-> tc[j][2]]]]) :
          tc \in UNION { [1..n -> ToolCallChoices(question)] : n \in 1..MaxToolCalls } }
  IN direct \cup delegating

\* should_continue that ends the turn whatever the last message carries
should_continue_end(msgs) == "END"

\* should_continue: "tools" if the last message carries tool calls, else END
should_continue(msgs) ==
  IF Len(msgs[Len(msgs)].tool_calls) > 0 THEN "tools" ELSE "END"

\* one entry of the log `calls`
CallEntry(step, tool_call, observation) ==
  [step |-> step, id |-> tool_call.id, name |-> tool_call.name,
   question |-> tool_call.args.question, out |-> observation]

\* the body of tool_node: the loop over the tool calls of the last message.
\* envs[i] is what the i-th call meets. An exception leaves the loop with the
\* results collected so far dropped.
RECURSIVE RunTools(_, _, _, _, _, _, _)

\* RunTools that services the first tool call of the message only
RunTools_first(tool_calls, endpoint, envs, step, i, result, log) ==
  LET tool_call == tool_calls[1] IN
  IF tool_call.name \notin DOMAIN tools_by_name
  THEN [exc |-> "KeyError", result |-> <<>>, log |-> log]
  ELSE LET observation == InvokeTool(tool_call.name, tool_call.args, endpoint, envs[1])
           log1 == Append(log, CallEntry(step, tool_call, observation))
       IN IF observation.k = "raise"
          THEN [exc |-> observation.exc, result |-> <<>>, log |-> log1]
          ELSE [exc |-> "none",
                result |-> <<ToolMessage(PyStr(observation.v), tool_call.id)>>,
                log |-> log1]

\* RunTools that invokes the tool a second time when the call came back with
\* an error text
RunTools_retry(tool_calls, endpoint, envs, step, i, result, log) ==
  IF i > Len(tool_calls) THEN [exc |-> "none", result |-> result, log |-> log]
  ELSE LET tool_call == tool_calls[i] IN
       IF tool_call.name \notin DOMAIN tools_by_name
       THEN [exc |-> "KeyError", result |-> <<>>, log |-> log]
       ELSE LET observation == InvokeTool(tool_call.name, tool_call.args, endpoint, envs[i])
                entry == CallEntry(step, tool_call, observation)
                log1 == IF observation.path \in {"HTTPStatusError", "RequestError", "Exception"}
                        THEN log \o <<entry, entry>>
                        ELSE Append(log, entry)
            IN IF observation.k = "raise"
               THEN [exc |-> observation.exc, result |-> <<>>, log |-> log1]
               ELSE RunTools(tool_calls, endpoint, envs, step, i + 1,
                             Append(result, ToolMessage(PyStr(observation.v), tool_call.id)),
                             log1)

RunTools(tool_calls, endpoint, envs, step, i, result, log) ==
  IF i > Len(tool_calls) THEN [exc |-> "none", result |-> result, log |-> log]
  ELSE LET tool_call == tool_calls[i] IN
       IF tool_call.name \notin DOMAIN tools_by_name
       THEN [exc |-> "KeyError", result |-> <<>>, log |-> log]
       ELSE LET observation == InvokeTool(tool_call.name, tool_call.args, endpoint, envs[i])
                log1 == Append(log, CallEntry(step, tool_call, observation))
            IN IF observation.k = "raise"
               THEN [exc |-> observation.exc, result |-> <<>>, log |-> log1]
               ELSE RunTools(tool_calls, endpoint, envs, step, i + 1,
                             Append(result, ToolMessage(PyStr(observation.v), tool_call.id)),
                             log1)

\* add_messages that replaces the conversation by the update
add_messages_replace(left, right) == right

\* add_messages, the reducer of MessagesState: the update is appended
add_messages(left, right) == left \o right

Init ==
  /\ FOUNDRY_PROJECT_ENDPOINT \in Endpoints
  /\ messages = <<HumanMessage(Q)>>
  /\ pc = "llm_call"
  /\ error = "none"
  /\ steps = 0
  /\ calls = <<>>
  /\ cstate = "off"
  /\ cin = NoInput
  /\ cout = NoOutput

\* node llm_call, then the conditional edge should_continue
llm_call ==
  /\ pc = "llm_call"
  /\ steps < RecursionLimit
  /\ \E answer \in LlmAnswers(messages) :
       /\ messages' = add_messages(messages, <<answer>>)
       /\ pc' = should_continue(messages')
  /\ steps' = steps + 1
  /\ UNCHANGED <<FOUNDRY_PROJECT_ENDPOINT, error, calls>>
  /\ UNCHANGED clientVars

\* node tools, then the edge back to llm_call
tool_node ==
  /\ pc = "tools"
  /\ steps < RecursionLimit
  /\ LET tool_calls == messages[Len(messages)].tool_calls IN
     \E envs \in { e \in [DOMAIN tool_calls -> RouterEnvs \cup FirstCallEnvs] :
                    \A i \in DOMAIN tool_calls : i > 1 => e[i] \in RouterEnvs } :
       LET run == RunTools(tool_calls, FOUNDRY_PROJECT_ENDPOINT, envs, steps + 1, 1, <<>>, <<>>) IN
       /\ calls' = calls \o run.log
       /\ IF run.exc = "none"
          THEN /\ messages' = add_messages(messages, run.result)
               /\ pc' = "llm_call"
               /\ error' = "none"
          ELSE /\ messages' = messages
               /\ pc' = "raised"
               /\ error' = run.exc
  /\ steps' = steps + 1
  /\ UNCHANGED FOUNDRY_PROJECT_ENDPOINT
  /\ UNCHANGED clientVars

\* the compiled graph (builder.compile()) has no iteration bound of its own:
\* the LangGraph runtime stops a turn that has not reached END after its
\* recursion limit of supersteps, with GraphRecursionError
recursion_error ==
  /\ pc \in {"llm_call", "tools"}
  /\ steps = RecursionLimit
  /\ pc' = "raised"
  /\ error' = "GraphRecursionError"
  /\ UNCHANGED <<FOUNDRY_PROJECT_ENDPOINT, messages, steps, calls>>
  /\ UNCHANGED clientVars

Next == llm_call \/ tool_node \/ recursion_error

Spec == Init /\ [][Next]_vars

\* ========================================================================
\* Properties of the sub-agent client (ClientSpec)
\* ========================================================================
Contains(text, token) == \E i \in DOMAIN text : text[i] = token

\* the call of ClientSpec has run, with the endpoint configured
ClientDone == cstate = "done" /\ FOUNDRY_PROJECT_ENDPOINT # ""

\* the call got a 2xx response whose body decoded to the JSON object cin.env.data
GotObject ==
  /\ ClientDone
  /\ cin.env.cred = "ok"
  /\ cin.env.http = "response"
  /\ cin.env.status >= 200 /\ cin.env.status < 300
  /\ cin.env.body = "json"
  /\ cin.env.data.t = "dict"

\* C3: _call_sub_agent always returns a text value and never lets an
\* exception propagate to its caller, whatever fails during the call
\* (credential acquisition, the POST, a non-2xx status, JSON decoding,
\* response parsing).
C3_AlwaysReturnsText ==
  cstate = "done" => (cout.k = "return" /\ cout.v.t = "str")

\* --- the three shapes as the specification describes them ---------------
\* shape 1: a top-level output_text that is a non-empty text
HasOutputText(data) ==
  /\ "output_text" \in DOMAIN data.v
  /\ data.v["output_text"].t = "str"
  /\ data.v["output_text"].v # <<>>

\* the text fragment of one content block, <<>> if it has none
Fragment(block) ==
  IF block.t = "str" THEN <<block.v>>
  ELSE IF block.t = "dict" /\ "text" \in DOMAIN block.v /\ block.v["text"].t = "str"
       THEN <<block.v["text"].v>>
       ELSE <<>>

RECURSIVE FragmentsOfBlocks(_)
FragmentsOfBlocks(blocks) ==
  IF Len(blocks) = 0 THEN <<>>
  ELSE Fragment(Head(blocks)) \o FragmentsOfBlocks(Tail(blocks))

\* the fragments of one item of the output array: those of its content blocks
\* if it is a message item with a content array, none otherwise
FragmentsOfItem(item) ==
  IF /\ item.t = "dict"
     /\ "type" \in DOMAIN item.v
     /\ item.v["type"].t = "str" /\ item.v["type"].v = <<"message">>
     /\ "content" \in DOMAIN item.v
     /\ item.v["content"].t = "list"
  THEN FragmentsOfBlocks(item.v["content"].v)
  ELSE <<>>

RECURSIVE FragmentsOfItems(_)
FragmentsOfItems(items) ==
  IF Len(items) = 0 THEN <<>>
  ELSE FragmentsOfItem(Head(items)) \o FragmentsOfItems(Tail(items))

\* all text fragments of the output array of a payload, in array order
AllFragments(data) ==
  IF "output" \in DOMAIN data.v /\ data.v["output"].t = "list"
  THEN FragmentsOfItems(data.v["output"].v)
  ELSE <<>>

\* shape 2: an output array from which some text can be extracted
HasOutputFragments(data) == Len(AllFragments(data)) > 0

\* shape 3: a choices array whose first choice has a non-empty message content
FirstChoiceContent(data) ==
  IF /\ "choices" \in DOMAIN data.v
     /\ data.v["choices"].t = "list"
     /\ Len(data.v["choices"].v) > 0
     /\ data.v["choices"].v[1].t = "dict"
     /\ "message" \in DOMAIN data.v["choices"].v[1].v
     /\ data.v["choices"].v[1].v["message"].t = "dict"
     /\ "content" \in DOMAIN data.v["choices"].v[1].v["message"].v
     /\ data.v["choices"].v[1].v["message"].v["content"].t = "str"
  THEN data.v["choices"].v[1].v["message"].v["content"].v
  ELSE <<>>

\* output_text is absent or a text (possibly empty)
PlainOutputText(data) ==
  "output_text" \in DOMAIN data.v => data.v["output_text"].t = "str"

\* C8: parsing tries (1) output_text, (2) the output array, (3) choices, in
\* this order, and returns the text of the first shape that matches; an
\* earlier shape that is present but yields no text (empty output_text,
\* output items without extractable text, output items that are not
\* objects) falls through to the later shapes instead of ending in an error
\* or a different result.
C8_FirstMatchingShape ==
  (GotObject /\ PlainOutputText(cin.env.data)) =>
    LET data == cin.env.data IN
    IF HasOutputText(data)
    THEN cout.k = "return" /\ cout.v = data.v["output_text"]
    ELSE IF HasOutputFragments(data)
    THEN cout.k = "return" /\ cout.path = "output"
    ELSE IF FirstChoiceContent(data) # <<>>
    THEN cout.k = "return" /\ cout.v = Str(FirstChoiceContent(data))
    ELSE TRUE

\* every item of the output array is an object, and every message item has a
\* content array
WellFormedOutput(data) ==
  /\ "output" \in DOMAIN data.v
  /\ data.v["output"].t = "list"
  /\ \A i \in DOMAIN data.v["output"].v :
       LET item == data.v["output"].v[i] IN
       /\ item.t = "dict"
       /\ "content" \in DOMAIN item.v => item.v["content"].t = "list"

\* C9: for a payload of the output-array shape, the text returned is the
\* newline-joined concatenation of all text fragments of the content blocks
\* of all message items of the output array, in array order; no fragment of
\* any message item is omitted.
C9_AllFragmentsJoined ==
  (/\ GotObject
   /\ PlainOutputText(cin.env.data)
   /\ ~HasOutputText(cin.env.data)
   /\ WellFormedOutput(cin.env.data)
   /\ HasOutputFragments(cin.env.data)) =>
    (cout.k = "return" /\ cout.v = Str(JoinNL(AllFragments(cin.env.data))))

\* the failure class a returned text belongs to, read off its opening words
TextClass(text) ==
  IF Len(text) = 0 THEN "none"
  ELSE IF text[1] = "Sorry, I couldn't reach the " THEN "status"
  ELSE IF text[1] = "Sorry, I couldn't connect to the " THEN "transport"
  ELSE IF text[1] = "Sorry, an unexpected error occurred while contacting the " THEN "generic"
  ELSE "none"

\* the failure class of the call of ClientSpec: "status" for a non-2xx
\* response, "transport" for no response, "generic" for a body that is not
\* JSON or decodes to null or a number (the parser raises on them)
FailureClass ==
  IF cin.env.http = "transport" THEN "transport"
  ELSE IF ~(cin.env.status >= 200 /\ cin.env.status < 300) THEN "status"
  ELSE IF cin.env.body = "invalid" THEN "generic"
  ELSE IF cin.env.data.t \in {"null", "num"} THEN "generic"
  ELSE "none"

Serviced(m) ==
  SelectSeq(calls, LAMBDA e : \E j \in DOMAIN messages[m].tool_calls :
                                 e.id = messages[m].tool_calls[j].id)

\* C1: pass-through law. In a turn in which a tool was executed and returned
\* text R, the assistant message that ends the turn has content R verbatim.
C1_PassThrough ==
  (pc = "END" /\ HasRole(messages, "tool")) =>
    messages[Len(messages)].content = LastContent(messages, "tool")

\* C2: the question argument that reaches _call_sub_agent, and the content of
\* the single user-role input of the request body, equal the latest user
\* question verbatim.
C2_QuestionVerbatim ==
  \A i \in DOMAIN calls :
    /\ calls[i].question = LastContent(messages, "user")
    /\ calls[i].out.posts > 0 =>
         /\ Len(calls[i].out.request.input) = 1
         /\ calls[i].out.request.input[1].role = "user"
         /\ calls[i].out.request.input[1].content = LastContent(messages, "user")

\* C4: an error raised by a tool invocation in tool_node, or a tool name that
\* is not in the registry, does not abort the turn.
C4_ToolErrorDoesNotAbort ==
  ~(pc = "raised" /\ error \in {"KeyError", "ClientAuthenticationError"})

C7_LoopReachesEnd ==
  error # "GraphRecursionError"

\* ========================================================================
\* Further properties of the sub-agent client (ClientSpec)
\* ========================================================================
\* C11: when FOUNDRY_PROJECT_ENDPOINT is not configured, _call_sub_agent
\* returns a text that contains the target agent's name, does not raise, and
\* neither acquires a credential nor issues an HTTP request.
C11_MissingEndpointFailsFast ==
  (cstate = "done" /\ FOUNDRY_PROJECT_ENDPOINT = "") =>
    /\ cout.k = "return"
    /\ cout.v.t = "str"
    /\ Contains(cout.v.v, cin.agent_name)
    /\ cout.creds = 0
    /\ cout.posts = 0
    /\ cout.request = NoRequest

\* a call with the endpoint unset has returned, in an environment where the
\* credential chain would have raised
C11_Witness ==
  /\ cstate = "done"
  /\ FOUNDRY_PROJECT_ENDPOINT = ""
  /\ cin.env.cred = "raise"
  /\ cin.agent_name = MENU_AGENT_NAME
  /\ cout.k = "return"

\* the decoded body matches none of the three shapes: it is no JSON object,
\* or an object without output_text text, without extractable output text and
\* without a first choice content
MatchesNoShape(data) ==
  \/ data.t # "dict"
  \/ /\ PlainOutputText(data)
     /\ ~HasOutputText(data)
     /\ ~HasOutputFragments(data)
     /\ FirstChoiceContent(data) = <<>>

\* C12: for every decoded JSON body that matches none of the three shapes
\* (bodies that are not JSON objects included: null, a number, a list),
\* _call_sub_agent returns the 'could not parse' diagnostic text with an
\* excerpt of at most RawLimit characters of the raw payload, not another
\* text and not an exception.
C12_UnparsableDiagnostic ==
  (/\ ClientDone
   /\ cin.env.cred = "ok"
   /\ cin.env.http = "response"
   /\ cin.env.status >= 200 /\ cin.env.status < 300
   /\ cin.env.body = "json"
   /\ MatchesNoShape(cin.env.data)) =>
    /\ cout.k = "return"
    /\ cout.v.t = "str"
    /\ Len(cout.v.v) >= 3
    /\ cout.v.v[1] = "Received a response from "
    /\ cout.v.v[2] = cin.agent_name
    /\ cout.v.v[3] = " but could not parse it. Raw: "
    /\ Len(cout.v.v) - 3 <= RawLimit
    /\ SubSeq(cout.v.v, 4, Len(cout.v.v)) = Take(PyStr(cin.env.data), RawLimit)

\* ========================================================================
\* Further properties of the router (Spec)
\* ========================================================================
IsPrefix(s1, s2) == Len(s1) <= Len(s2) /\ SubSeq(s2, 1, Len(s1)) = s1

\* C13: the Conversation is strictly additive within one invocation: after
\* every step of the graph the messages before the step are a prefix of the
\* messages after it; no prior message is removed, replaced or reordered.
C13_ConversationAdditive ==
  [][IsPrefix(messages, messages')]_vars

\* both nodes have appended to the conversation
C13_Witness ==
  /\ pc = "llm_call"
  /\ Len(messages) >= 3
  /\ messages[1] = HumanMessage(Q)
  /\ messages[2].role = "assistant"
  /\ messages[3].role = "tool"

GraphEdges ==
  { <<"llm_call", "tools">>, <<"llm_call", "END">>, <<"tools", "llm_call">> }

\* C15: the turn starts in llm_call; a llm_call step moves to tools iff the
\* assistant message it appended carries at least one tool call and ends the
\* turn otherwise; a tools step that appended its tool messages returns to
\* llm_call unconditionally; the graph has no other transition between its
\* nodes (a node that raises leaves the graph, it moves to no node).
C15_RouterTransitions ==
  /\ pc = "llm_call"
  /\ [][/\ (pc = "llm_call" /\ messages' # messages) =>
            /\ Len(messages') = Len(messages) + 1
            /\ messages'[Len(messages')].role = "assistant"
            /\ pc' = "tools" <=> Len(messages'[Len(messages')].tool_calls) >= 1
            /\ pc' = "END" <=> Len(messages'[Len(messages')].tool_calls) = 0
        /\ (pc = "tools" /\ messages' # messages) => pc' = "llm_call"
        /\ (pc' # pc /\ pc' # "raised") => <<pc, pc'>> \in GraphEdges
        /\ pc \in {"END", "raised"} => pc' = pc]_vars

\* a turn went llm_call -> tools -> llm_call -> END
C15_Witness ==
  /\ pc = "END"
  /\ Len(messages) >= 4
  /\ messages[2].role = "assistant" /\ Len(messages[2].tool_calls) >= 1
  /\ messages[3].role = "tool"
  /\ messages[Len(messages)].role = "assistant"

RECURSIVE CredentialAcquisitions(_)
\* number of times a credential was constructed and a token fetched by the
\* calls of a log
CredentialAcquisitions(log) ==
  IF Len(log) = 0 THEN 0
  ELSE Head(log).out.creds + CredentialAcquisitions(Tail(log))

\* C16: over the calls of _call_sub_agent made by one process with the
\* endpoint configured, the credential is constructed and the bearer token
\* fetched at most once, not once per request.
C16_CredentialCached ==
  CredentialAcquisitions(calls) <= 1

====
